---- MODULE Spec2Model ----
(***************************************************************************)
(* Model of the "while" command of yupsh/while: a loop that reads its      *)
(* input line by line, asks a caller-supplied processor for the command of *)
(* each line and executes it.  The repository holds three executors:       *)
(*   "Execute"     command.Execute of package while (processor per line,   *)
(*                 driven by the framework's ProcessLinesSimple),          *)
(*   "Executor"    command.Executor with a Body (fields of the line are    *)
(*                 the arguments of the body),                             *)
(*   "PassThrough" command.Executor of command.go (copies lines).          *)
(***************************************************************************)
EXTENDS Integers, Sequences, FiniteSets, TLC

\* ---------------------------------------------------------------- bounds
MaxLines == 3

\* ------------------------------------------------------------ input data
\* A line is a sequence of characters (its terminator already stripped).
Lines == { <<>>, <<" ">>, <<"a">>, <<"e", ",", "a">> }

RECURSIVE SeqsUpTo(_, _)
SeqsUpTo(S, n) ==
  IF n = 0 THEN { <<>> }
  ELSE LET shorter == SeqsUpTo(S, n - 1)
       IN shorter \cup { Append(s, x) : s \in { t \in shorter : Len(t) = n - 1 }, x \in S }

Inputs == SeqsUpTo(Lines, MaxLines)

\* A nil processor.
Nil == "nil"
\* Errors are records of a message and the line (or arguments) it is about.
Error(msg, x) == [ msg |-> msg, arg |-> x ]
\* The nil error: success.
NilErr == Error("nil", << >>)
\* The result of a loop that has not returned yet.
Pending == Error("pending", << >>)
\* The nil command: skip the line.
NilCmd == [ kind |-> "nil", arg |-> << >> ]
\* The two input streams a command is handed.
NilReader == "nil"
EmptyReader == "strings.NewReader(\"\")"
Unlimited == 0 - 1
NoPos == 0 - 1

Impls == { "Execute", "Executor", "PassThrough" }
ProcessorKinds == { "prefix", "skipBlank", "errorLine", "ctxCheck", "mixed" }
Separators == { "", "," }
Canceled == Error("context canceled", << >>)
DeadlineExceeded == Error("context deadline exceeded", << >>)
ContextErrors == { Canceled, DeadlineExceeded }

ErrProcessorRequired == Error("while: processor function is required", << >>)
ErrRead == Error("read error", << >>)
ErrWrite == Error("write error", << >>)
PanicNilCall == Error("panic: call of nil func", << >>)

VARIABLES
  impl,            \* which executor runs
  processor,       \* c.processor / c.body: a processor kind, or Nil
  FieldSeparator,  \* c.flags.FieldSeparator
  stdin,           \* the lines the input stream holds
  srcErr,          \* TRUE: the stream ends in a read error instead of EOF
  okWrites,        \* writes stdout accepts before it fails (Unlimited: all)
  ctxDone,         \* ctx.Done() is closed
  ctxErr,          \* what ctx.Err() returns once ctx is done
  ctxAtStart,      \* history: ctx was already done at invocation
  pc,              \* position of the executor
  pos,             \* number of lines the scanner has returned
  line,            \* scanner.Text()
  cmd,             \* the command returned for the current line, or NilCmd
  err,             \* the error the line's command handed back, or NilErr
  running,         \* number of commands currently executing
  stdout,          \* records [text, by]: text written, by: index of the line
  stderr,
  result,          \* Pending while running, then NilErr (success) or an error
  calls,           \* history: indices of the lines the processor was called for
  execs,           \* history: indices of the lines whose command was started
  unitStdin,       \* history: the input stream handed to each command
  failed,          \* history: indices of the lines whose command returned an error
  cancelPos        \* history: the line in progress when cancellation was
                   \* signalled (the next one between two lines), or NoPos

vars == << impl, processor, FieldSeparator, stdin, srcErr, okWrites, ctxDone,
           ctxErr, ctxAtStart, pc, pos, line, cmd, err, running, stdout, stderr,
           result, calls, execs, unitStdin, failed, cancelPos >>

config == << impl, processor, FieldSeparator, stdin, srcErr, okWrites, ctxErr,
             ctxAtStart >>

\* ------------------------------------------------------- line parsing
\* strings.Split(line, sep) for a one-character separator.
RECURSIVE Split(_, _)
Split(s, sep) ==
  IF \A i \in 1..Len(s) : s[i] # sep THEN << s >>
  ELSE LET i == CHOOSE k \in 1..Len(s) :
                  s[k] = sep /\ \A j \in 1..(k - 1) : s[j] # sep
       IN << SubSeq(s, 1, i - 1) >> \o Split(SubSeq(s, i + 1, Len(s)), sep)

\* strings.Fields(line): the maximal runs of non-space characters.
RECURSIVE Fields(_)
Fields(s) ==
  IF Len(s) = 0 THEN << >>
  ELSE IF s[1] = " " THEN Fields(Tail(s))
  ELSE LET stops == { k \in 1..Len(s) : s[k] = " " }
           n == IF stops = {} THEN Len(s) + 1
                ELSE CHOOSE k \in stops : \A j \in stops : k <= j
       IN << SubSeq(s, 1, n - 1) >> \o Fields(SubSeq(s, n, Len(s)))

\* The arguments the Body-based executor passes to the body.
Args(l, sep) == IF sep # "" THEN Split(l, sep) ELSE Fields(l)

\* ------------------------------------------------------- processors
\* strings.TrimSpace(line) == ""
IsBlankLine(l) == \A i \in 1..Len(l) : l[i] = " "
\* strings.Contains(line, "error"), with "e" standing for the marker
HasErrorMark(l) == \E i \in 1..Len(l) : l[i] = "e"

\* The same tests on the argument list of a body.
IsBlank(x, perArgs) ==
  IF perArgs THEN \A i \in 1..Len(x) : IsBlankLine(x[i]) ELSE IsBlankLine(x)
HasError(x, perArgs) ==
  IF perArgs THEN \E i \in 1..Len(x) : HasErrorMark(x[i]) ELSE HasErrorMark(x)

Unit(kind, x) == [ kind |-> kind, arg |-> x ]

\* The command a processor of kind p returns for x (a line, or the argument
\* list of a body when perArgs), NilCmd to skip.
Processor(p, x, perArgs) ==
  CASE p = "prefix"    -> Unit("write", x)
    [] p = "skipBlank" -> IF IsBlank(x, perArgs) THEN NilCmd ELSE Unit("write", x)
    [] p = "errorLine" -> IF HasError(x, perArgs) THEN Unit("fail", x)
                          ELSE Unit("write", x)
    [] p = "ctxCheck"  -> Unit("checked", x)
    [] p = "mixed"     -> IF IsBlank(x, perArgs) THEN NilCmd
                          ELSE IF HasError(x, perArgs) THEN Unit("partial", x)
                          ELSE Unit("write", x)

\* What a command writes for its argument, and the error it fails with.
Out(x) == << "processed", x >>
SimulatedError(x) == Error("simulated error for line", x)

\* CommandFunc.Execute: the effect of running command u with the context in
\* state done/cerr: the lines it writes to output and stderr, and its error.
UnitEffect(u, done, cerr) ==
  CASE u.kind = "write"   -> [ out |-> << Out(u.arg) >>, diag |-> << >>, err |-> NilErr ]
    [] u.kind = "fail"    -> [ out |-> << >>, diag |-> << >>, err |-> SimulatedError(u.arg) ]
    [] u.kind = "checked" -> IF done
                             THEN [ out |-> << >>, diag |-> << >>, err |-> cerr ]
                             ELSE [ out |-> << Out(u.arg) >>, diag |-> << >>, err |-> NilErr ]
    [] u.kind = "partial" -> [ out |-> << Out(u.arg) >>, diag |-> << Out(u.arg) >>,
                               err |-> SimulatedError(u.arg) ]

\* ------------------------------------------------------------- Init
Init ==
  /\ impl \in Impls
  /\ processor \in IF impl = "PassThrough" THEN { Nil } ELSE ProcessorKinds \cup { Nil }
  /\ FieldSeparator \in IF impl = "Executor" THEN Separators ELSE { "" }
  /\ stdin \in Inputs
  /\ srcErr \in BOOLEAN
  /\ okWrites \in IF impl = "PassThrough" THEN 0..MaxLines \cup { Unlimited }
                  ELSE { Unlimited }
  /\ ctxDone \in BOOLEAN
  /\ ctxErr \in ContextErrors
  /\ ctxAtStart = ctxDone
  /\ pc = "start"
  /\ pos = 0
  /\ line = << >>
  /\ cmd = NilCmd
  /\ err = NilErr
  /\ running = 0
  /\ stdout = << >>
  /\ stderr = << >>
  /\ result = Pending
  /\ calls = << >>
  /\ execs = << >>
  /\ unitStdin = << >>
  /\ failed = << >>
  /\ cancelPos = NoPos

\* return err
Return(e) ==
  /\ pc' = "done"
  /\ result' = e

\* ------------------------------------------------- shared building blocks
\* scanner.Scan() and scanner.Text(): the next line, with control going to
\* `next`; at the end of the stream the loop ends and scanner.Err() is
\* returned (nil at EOF).
ScanStep(next) ==
  /\ pc = "scan"
  /\ IF pos < Len(stdin)
     THEN /\ pos' = pos + 1
          /\ line' = stdin[pos + 1]
          /\ pc' = next
          /\ UNCHANGED result
     ELSE /\ Return(IF srcErr THEN ErrRead ELSE NilErr)
          /\ UNCHANGED << pos, line >>
  /\ UNCHANGED << config, ctxDone, cmd, err, running, stdout, stderr, calls,
                  execs, unitStdin, failed, cancelPos >>

\* c.processor(line) / c.body(args...): the processor is called for x and
\* its command kept; a nil command goes to `skip`, another one to "exec".
\* Calling a nil function value panics.
CallProcessor(x, perArgs, skip) ==
  IF processor = Nil
  THEN /\ Return(PanicNilCall)
       /\ UNCHANGED << cmd, calls >>
  ELSE LET c == Processor(processor, x, perArgs)
       IN /\ cmd' = c
          /\ calls' = Append(calls, pos)
          /\ pc' = IF c = NilCmd THEN skip ELSE "exec"
          /\ UNCHANGED result

\* The command of the current line starts executing with input stream `input`.
BeginUnit(input) ==
  /\ pc = "exec"
  /\ running' = running + 1
  /\ execs' = Append(execs, pos)
  /\ unitStdin' = Append(unitStdin, input)
  /\ pc' = "unit"
  /\ UNCHANGED << config, ctxDone, pos, line, cmd, err, stdout, stderr, result,
                  calls, failed, cancelPos >>

\* What the streams hold after a command wrote `texts` for line `n`.
Written(stream, texts, n) ==
  stream \o [ i \in 1..Len(texts) |-> [ text |-> texts[i], by |-> n ] ]

\* select { case <-ctx.Done(): return ctx.Err(); default: }
Select(next) ==
  /\ pc = "select"
  /\ IF ctxDone
     THEN Return(ctxErr)
     ELSE /\ pc' = next
          /\ UNCHANGED result
  /\ UNCHANGED << config, ctxDone, pos, line, cmd, err, running, stdout, stderr,
                  calls, execs, unitStdin, failed, cancelPos >>

\* ------------------------------------------- command.Execute (package while)
\* Mutant: the nil check of the processor is missing.
ExecuteStart_NoNilCheck ==
  /\ impl = "Execute"
  /\ pc = "start"
  /\ pc' = "scan"
  /\ UNCHANGED << config, ctxDone, pos, line, cmd, err, running, stdout, stderr,
                  result, calls, execs, unitStdin, failed, cancelPos >>

\* if c.processor == nil { return fmt.Errorf(...) }; else ProcessLinesSimple.
ExecuteStart ==
  /\ impl = "Execute"
  /\ pc = "start"
  /\ IF processor = Nil
     THEN Return(ErrProcessorRequired)
     ELSE /\ pc' = "scan"
          /\ UNCHANGED result
  /\ UNCHANGED << config, ctxDone, pos, line, cmd, err, running, stdout, stderr,
                  calls, execs, unitStdin, failed, cancelPos >>

\* ProcessLinesSimple (framework): reads the next line.
PLSScan ==
  /\ impl = "Execute"
  /\ ScanStep("linecheck")

\* ProcessLinesSimple (framework): the cancellation check of a line boundary.
PLSCheck ==
  /\ impl = "Execute"
  /\ pc = "linecheck"
  /\ IF ctxDone
     THEN Return(ctxErr)
     ELSE /\ pc' = "callback"
          /\ UNCHANGED result
  /\ UNCHANGED << config, ctxDone, pos, line, cmd, err, running, stdout, stderr,
                  calls, execs, unitStdin, failed, cancelPos >>

\* The callback of Execute: cmd := c.processor(line); nil is skipped.
ExecuteCallback ==
  /\ impl = "Execute"
  /\ pc = "callback"
  /\ CallProcessor(line, FALSE, "plsret")
  /\ err' = NilErr
  /\ UNCHANGED << config, ctxDone, pos, line, running, stdout, stderr,
                  execs, unitStdin, failed, cancelPos >>

\* cmd.Execute(ctx, nil, output, stderr) begins.
ExecuteRun ==
  /\ impl = "Execute"
  /\ BeginUnit(NilReader)

\* cmd.Execute returns; the callback returns its error.
ExecuteUnitReturn ==
  /\ impl = "Execute"
  /\ pc = "unit"
  /\ LET eff == UnitEffect(cmd, ctxDone, ctxErr)
     IN /\ stdout' = Written(stdout, eff.out, pos)
        /\ stderr' = Written(stderr, eff.diag, pos)
        /\ err' = eff.err
        /\ failed' = IF eff.err # NilErr THEN Append(failed, pos) ELSE failed
  /\ running' = running - 1
  /\ pc' = "plsret"
  /\ UNCHANGED << config, ctxDone, pos, line, cmd, result, calls, execs,
                  unitStdin, cancelPos >>

\* ProcessLinesSimple (framework): an error of the callback ends the loop.
PLSReturn ==
  /\ impl = "Execute"
  /\ pc = "plsret"
  /\ IF err # NilErr
     THEN Return(err)
     ELSE /\ pc' = "scan"
          /\ UNCHANGED result
  /\ UNCHANGED << config, ctxDone, pos, line, cmd, err, running, stdout, stderr,
                  calls, execs, unitStdin, failed, cancelPos >>

\* ------------------------------------- command.Executor (with a Body)
\* scanner := bufio.NewScanner(stdin)
ExecutorStart ==
  /\ impl = "Executor"
  /\ pc = "start"
  /\ pc' = "scan"
  /\ UNCHANGED << config, ctxDone, pos, line, cmd, err, running, stdout, stderr,
                  result, calls, execs, unitStdin, failed, cancelPos >>

\* Mutant: scanner.Err() is dropped, the loop returns nil after the last line.
ExecutorScan_DropsErr ==
  /\ impl = "Executor"
  /\ pc = "scan"
  /\ IF pos < Len(stdin)
     THEN /\ pos' = pos + 1
          /\ line' = stdin[pos + 1]
          /\ pc' = "body"
          /\ UNCHANGED result
     ELSE /\ Return(NilErr)
          /\ UNCHANGED << pos, line >>
  /\ UNCHANGED << config, ctxDone, cmd, err, running, stdout, stderr, calls,
                  execs, unitStdin, failed, cancelPos >>

\* Mutant: the end of the stream is reported as an error.
ExecutorScan_EOFIsError ==
  /\ impl = "Executor"
  /\ pc = "scan"
  /\ IF pos < Len(stdin)
     THEN /\ pos' = pos + 1
          /\ line' = stdin[pos + 1]
          /\ pc' = "body"
          /\ UNCHANGED result
     ELSE /\ Return(IF srcErr THEN ErrRead ELSE Error("EOF", << >>))
          /\ UNCHANGED << pos, line >>
  /\ UNCHANGED << config, ctxDone, cmd, err, running, stdout, stderr, calls,
                  execs, unitStdin, failed, cancelPos >>

\* for scanner.Scan() { line := scanner.Text() ... } return scanner.Err()
ExecutorScan ==
  /\ impl = "Executor"
  /\ ScanStep("body")

\* Mutant: the context is also checked before a line is skipped.
ExecutorBody_ChecksOnSkip ==
  /\ impl = "Executor"
  /\ pc = "body"
  /\ processor # Nil
  /\ LET c == Processor(processor, Args(line, FieldSeparator), TRUE)
     IN /\ cmd' = c
        /\ calls' = Append(calls, pos)
        /\ IF c = NilCmd /\ ctxDone
           THEN Return(ctxErr)
           ELSE /\ pc' = IF c = NilCmd THEN "scan" ELSE "exec"
                /\ UNCHANGED result
  /\ UNCHANGED << config, ctxDone, pos, line, err, running, stdout, stderr,
                  execs, unitStdin, failed, cancelPos >>

\* Mutant: a nil command ends the loop (break) instead of skipping the line.
ExecutorBody_NilEndsLoop ==
  /\ impl = "Executor"
  /\ pc = "body"
  /\ processor # Nil
  /\ LET c == Processor(processor, Args(line, FieldSeparator), TRUE)
     IN /\ cmd' = c
        /\ calls' = Append(calls, pos)
        /\ IF c = NilCmd
           THEN Return(NilErr)
           ELSE /\ pc' = "exec"
                /\ UNCHANGED result
  /\ UNCHANGED << config, ctxDone, pos, line, err, running, stdout, stderr,
                  execs, unitStdin, failed, cancelPos >>

\* Mutant: the body is called once to test for nil and once more for the
\* command.
ExecutorBody_CallsTwice ==
  /\ impl = "Executor"
  /\ pc = "body"
  /\ processor # Nil
  /\ LET c == Processor(processor, Args(line, FieldSeparator), TRUE)
     IN /\ cmd' = c
        /\ calls' = calls \o << pos, pos >>
        /\ pc' = IF c = NilCmd THEN "scan" ELSE "exec"
  /\ UNCHANGED << config, ctxDone, pos, line, err, running, stdout, stderr,
                  result, execs, unitStdin, failed, cancelPos >>

\* The line is split into fields and the body called with them; a nil
\* command skips the line (continue).
ExecutorBody ==
  /\ impl = "Executor"
  /\ pc = "body"
  /\ CallProcessor(Args(line, FieldSeparator), TRUE, "scan")
  /\ UNCHANGED << config, ctxDone, pos, line, err, running, stdout, stderr,
                  execs, unitStdin, failed, cancelPos >>

\* Mutant: the command is handed the loop's own stdin and reads it to the end.
ExecutorRun_PassesStdin ==
  /\ impl = "Executor"
  /\ pc = "exec"
  /\ running' = running + 1
  /\ execs' = Append(execs, pos)
  /\ unitStdin' = Append(unitStdin, "stdin")
  /\ pos' = Len(stdin)
  /\ pc' = "unit"
  /\ UNCHANGED << config, ctxDone, line, cmd, err, stdout, stderr, result,
                  calls, failed, cancelPos >>

\* Mutant: the command is started without waiting for it (go statement) and
\* the loop reads on.
ExecutorRun_Async ==
  /\ impl = "Executor"
  /\ pc = "exec"
  /\ running' = running + 1
  /\ execs' = Append(execs, pos)
  /\ unitStdin' = Append(unitStdin, EmptyReader)
  /\ pc' = "scan"
  /\ UNCHANGED << config, ctxDone, pos, line, cmd, err, stdout, stderr, result,
                  calls, failed, cancelPos >>

\* cmd.Executor()(ctx, strings.NewReader(""), stdout, stderr) begins.
ExecutorRun ==
  /\ impl = "Executor"
  /\ BeginUnit(EmptyReader)

\* Mutant: when the command fails and the context is done, the context's
\* error is returned in place of the command's.
ExecutorUnitReturn_CtxErrWins ==
  /\ impl = "Executor"
  /\ pc = "unit"
  /\ LET eff == UnitEffect(cmd, ctxDone, ctxErr)
     IN /\ stdout' = Written(stdout, eff.out, pos)
        /\ stderr' = Written(stderr, eff.diag, pos)
        /\ err' = eff.err
        /\ failed' = IF eff.err # NilErr THEN Append(failed, pos) ELSE failed
        /\ IF eff.err # NilErr
           THEN Return(IF ctxDone THEN ctxErr ELSE eff.err)
           ELSE /\ pc' = "select"
                /\ UNCHANGED result
  /\ running' = running - 1
  /\ UNCHANGED << config, ctxDone, pos, line, cmd, calls, execs, unitStdin,
                  cancelPos >>

\* Mutant: the output is dropped when the command fails (rolled back).
ExecutorUnitReturn_Rollback ==
  /\ impl = "Executor"
  /\ pc = "unit"
  /\ LET eff == UnitEffect(cmd, ctxDone, ctxErr)
     IN /\ stdout' = IF eff.err # NilErr THEN << >>
                     ELSE Written(stdout, eff.out, pos)
        /\ stderr' = Written(stderr, eff.diag, pos)
        /\ err' = eff.err
        /\ failed' = IF eff.err # NilErr THEN Append(failed, pos) ELSE failed
        /\ IF eff.err # NilErr
           THEN Return(eff.err)
           ELSE /\ pc' = "select"
                /\ UNCHANGED result
  /\ running' = running - 1
  /\ UNCHANGED << config, ctxDone, pos, line, cmd, calls, execs, unitStdin,
                  cancelPos >>

\* Mutant: the error of the command is returned without the nil test, so the
\* loop ends after the first command.
ExecutorUnitReturn_ReturnAlways ==
  /\ impl = "Executor"
  /\ pc = "unit"
  /\ LET eff == UnitEffect(cmd, ctxDone, ctxErr)
     IN /\ stdout' = Written(stdout, eff.out, pos)
        /\ stderr' = Written(stderr, eff.diag, pos)
        /\ err' = eff.err
        /\ failed' = IF eff.err # NilErr THEN Append(failed, pos) ELSE failed
        /\ Return(eff.err)
  /\ running' = running - 1
  /\ UNCHANGED << config, ctxDone, pos, line, cmd, calls, execs, unitStdin,
                  cancelPos >>

\* Mutant: the error of the command is dropped and the loop goes on.
ExecutorUnitReturn_IgnoreErr ==
  /\ impl = "Executor"
  /\ pc = "unit"
  /\ LET eff == UnitEffect(cmd, ctxDone, ctxErr)
     IN /\ stdout' = Written(stdout, eff.out, pos)
        /\ stderr' = Written(stderr, eff.diag, pos)
        /\ err' = eff.err
        /\ failed' = IF eff.err # NilErr THEN Append(failed, pos) ELSE failed
  /\ pc' = "select"
  /\ running' = running - 1
  /\ UNCHANGED << config, ctxDone, pos, line, cmd, result, calls, execs,
                  unitStdin, cancelPos >>

\* The command returns: if err != nil { return err }
ExecutorUnitReturn ==
  /\ impl = "Executor"
  /\ pc = "unit"
  /\ LET eff == UnitEffect(cmd, ctxDone, ctxErr)
     IN /\ stdout' = Written(stdout, eff.out, pos)
        /\ stderr' = Written(stderr, eff.diag, pos)
        /\ err' = eff.err
        /\ failed' = IF eff.err # NilErr THEN Append(failed, pos) ELSE failed
        /\ IF eff.err # NilErr
           THEN Return(eff.err)
           ELSE /\ pc' = "select"
                /\ UNCHANGED result
  /\ running' = running - 1
  /\ UNCHANGED << config, ctxDone, pos, line, cmd, calls, execs, unitStdin,
                  cancelPos >>

\* Mutant: the select has no default case and blocks until the context is done.
ExecutorSelect_Blocks ==
  /\ impl = "Executor"
  /\ pc = "select"
  /\ ctxDone
  /\ Return(ctxErr)
  /\ UNCHANGED << config, ctxDone, pos, line, cmd, err, running, stdout, stderr,
                  calls, execs, unitStdin, failed, cancelPos >>

\* Mutant: a cancelled context ends the loop with nil instead of ctx.Err().
ExecutorSelect_SwallowsCancel ==
  /\ impl = "Executor"
  /\ pc = "select"
  /\ IF ctxDone
     THEN Return(NilErr)
     ELSE /\ pc' = "scan"
          /\ UNCHANGED result
  /\ UNCHANGED << config, ctxDone, pos, line, cmd, err, running, stdout, stderr,
                  calls, execs, unitStdin, failed, cancelPos >>

\* The check for context cancellation after a command that succeeded.
ExecutorSelect ==
  /\ impl = "Executor"
  /\ Select("scan")

\* ------------------------------------- command.Executor (pass-through)
PassStart ==
  /\ impl = "PassThrough"
  /\ pc = "start"
  /\ pc' = "scan"
  /\ UNCHANGED << config, ctxDone, pos, line, cmd, err, running, stdout, stderr,
                  result, calls, execs, unitStdin, failed, cancelPos >>

PassScan ==
  /\ impl = "PassThrough"
  /\ ScanStep("write")

\* What fmt.Fprintln writes for a line: the line and a newline.
Println(l) == Append(l, "\n")

\* Mutant: the context is checked before the line is written.
PassWrite_ChecksFirst ==
  /\ impl = "PassThrough"
  /\ pc = "write"
  /\ IF ctxDone
     THEN /\ Return(ctxErr)
          /\ UNCHANGED stdout
     ELSE IF okWrites # Unlimited /\ Len(stdout) >= okWrites
     THEN /\ Return(ErrWrite)
          /\ UNCHANGED stdout
     ELSE /\ stdout' = Written(stdout, << Println(line) >>, pos)
          /\ pc' = "select"
          /\ UNCHANGED result
  /\ UNCHANGED << config, ctxDone, pos, line, cmd, err, running, stderr, calls,
                  execs, unitStdin, failed, cancelPos >>

\* _, err := fmt.Fprintln(stdout, line); if err != nil { return err }
PassWrite ==
  /\ impl = "PassThrough"
  /\ pc = "write"
  /\ IF okWrites # Unlimited /\ Len(stdout) >= okWrites
     THEN /\ Return(ErrWrite)
          /\ UNCHANGED stdout
     ELSE /\ stdout' = Written(stdout, << Println(line) >>, pos)
          /\ pc' = "select"
          /\ UNCHANGED result
  /\ UNCHANGED << config, ctxDone, pos, line, cmd, err, running, stderr, calls,
                  execs, unitStdin, failed, cancelPos >>

PassSelect ==
  /\ impl = "PassThrough"
  /\ Select("scan")

\* ------------------------------------------------------- environment
\* The context is cancelled (cancel() is called or the deadline passes) while
\* the loop runs.
Cancel ==
  /\ pc # "done"
  /\ ~ctxDone
  /\ ctxDone' = TRUE
  /\ cancelPos' = IF pc \in { "start", "scan" } THEN pos + 1 ELSE pos
  /\ UNCHANGED << config, pc, pos, line, cmd, err, running, stdout, stderr,
                  result, calls, execs, unitStdin, failed >>

Next ==
  \/ ExecuteStart
  \/ PLSScan
  \/ PLSCheck
  \/ ExecuteCallback
  \/ ExecuteRun
  \/ ExecuteUnitReturn
  \/ PLSReturn
  \/ ExecutorStart
  \/ ExecutorScan
  \/ ExecutorBody
  \/ ExecutorRun
  \/ ExecutorUnitReturn
  \/ ExecutorSelect
  \/ PassStart
  \/ PassScan
  \/ PassWrite
  \/ PassSelect
  \/ Cancel

Spec == Init /\ [][Next]_vars

\* The steps of the executor itself: every step but the cancellation, which
\* the environment may or may not take.
Step ==
  \/ ExecuteStart
  \/ PLSScan
  \/ PLSCheck
  \/ ExecuteCallback
  \/ ExecuteRun
  \/ ExecuteUnitReturn
  \/ PLSReturn
  \/ ExecutorStart
  \/ ExecutorScan
  \/ ExecutorBody
  \/ ExecutorRun
  \/ ExecutorUnitReturn
  \/ ExecutorSelect
  \/ PassStart
  \/ PassScan
  \/ PassWrite
  \/ PassSelect

\* The executor is one goroutine that keeps running, and every call of the
\* processor and every command it starts returns.
FairSpec == Spec /\ WF_vars(Step)

TypeOK ==
  /\ impl \in Impls
  /\ pc \in { "start", "scan", "linecheck", "callback", "plsret", "body", "exec",
              "unit", "select", "write", "done" }
  /\ pos \in 0..Len(stdin)
  /\ running \in 0..1
  /\ (result = Pending) = (pc # "done")

\* =================================================================
\* Properties
\* =================================================================
Done == pc = "done"
\* The executors that dispatch a command per line, with a processor.
Dispatching == impl \in { "Execute", "Executor" } /\ processor # Nil
\* What the processor is called with for line l, and the command of line i.
ArgOf(l) == IF impl = "Executor" THEN Args(l, FieldSeparator) ELSE l
CommandOf(i) == Processor(processor, ArgOf(stdin[i]), impl = "Executor")
Texts(stream) == [ i \in 1..Len(stream) |-> stream[i].text ]
Last(s) == s[Len(s)]
Range(s) == { s[i] : i \in 1..Len(s) }

\* The command of line i succeeds and writes exactly one line when the
\* context is not cancelled.
WritesOneLine(i) ==
  /\ CommandOf(i) # NilCmd
  /\ LET eff == UnitEffect(CommandOf(i), FALSE, ctxErr)
     IN eff.err = NilErr /\ Len(eff.out) = 1

C1_Case ==
  /\ Dispatching
  /\ ~ctxDone
  /\ ~srcErr
  /\ \A i \in 1..Len(stdin) : WritesOneLine(i)

\* C1: with a context that is never cancelled, a source without read error
\* and a processor whose command for every line succeeds and writes one line,
\* the loop returns success and the output holds exactly one line per input
\* line, the i-th being the one written for the i-th input line.
C1_OneLinePerInputLine ==
  (C1_Case /\ Done) =>
    /\ result = NilErr
    /\ Len(stdout) = Len(stdin)
    /\ \A i \in 1..Len(stdin) :
         stdout[i] = [ text |-> UnitEffect(CommandOf(i), FALSE, ctxErr).out[1],
                       by |-> i ]

C1_Witness ==
  /\ C1_Case
  /\ Done
  /\ impl = "Executor"
  /\ Len(stdin) = MaxLines
  /\ stdin[1] # stdin[2]
  /\ Len(stdout) = MaxLines

\* C2: when the command of line k returns an error, the loop stops at once
\* with exactly that error as its result; the processor is not called and no
\* command is executed for any later line, and nothing is written for one.
C2_FailFast ==
  (Dispatching /\ failed # << >>) =>
    LET k == failed[1]
    IN /\ Len(failed) = 1
       /\ err # NilErr
       /\ pc \in { "plsret", "done" }
       /\ Done => result = err
       /\ pos = k
       /\ running = 0
       /\ \A i \in Range(calls) \cup Range(execs) : i <= k
       /\ \A i \in 1..Len(stdout) : stdout[i].by <= k
       /\ \A i \in 1..Len(stderr) : stderr[i].by <= k

C2_Witness ==
  /\ impl = "Executor"
  /\ Done
  /\ failed = << 2 >>
  /\ Len(stdin) = 3
  /\ result = SimulatedError(ArgOf(stdin[2]))
  /\ Len(stdout) = 1

\* The well-formed runs of the Body-based executor: a body is configured and
\* the source has no read error.
WellFormed ==
  /\ impl = "Executor"
  /\ processor # Nil
  /\ ~srcErr
  /\ okWrites = Unlimited

\* C3 (as claimed): a loop invoked with an already cancelled context ends
\* with the context's error, never with success (stated here for the inputs
\* that hold at least one line).
C3_CancelledNeverSucceeds ==
  (ctxAtStart /\ WellFormed /\ Len(stdin) > 0 /\ Done) => result \in ContextErrors

\* C4 (as claimed): with a context already cancelled at invocation no command
\* is executed for any line and nothing is written to the output.
C4_CancelledRunsNothing ==
  (ctxAtStart /\ WellFormed) => (execs = << >> /\ stdout = << >>)

\* C5: command.Execute with a nil processor fails at once with the
\* "processor function is required" error: no line is read, the processor is
\* not called and nothing is written, whatever the input.
C5_NilProcessor ==
  (impl = "Execute" /\ processor = Nil) =>
    /\ pc \in { "start", "done" }
    /\ Done => result = ErrProcessorRequired
    /\ pos = 0
    /\ calls = << >>
    /\ stdout = << >>
    /\ stderr = << >>

C5_Witness ==
  /\ impl = "Execute"
  /\ processor = Nil
  /\ Done
  /\ result = ErrProcessorRequired
  /\ Len(stdin) > 0

\* The processor returns the nil command for line i.
Skipped(i) == CommandOf(i) = NilCmd
\* The lines of an input for which the processor returns a command.
Kept(ls) ==
  SelectSeq(ls, LAMBDA l : Processor(processor, ArgOf(l), impl = "Executor") # NilCmd)
\* The output of executing, in order and up to the first failure, the command
\* of every line of ls under a context that is not cancelled.
RECURSIVE RunOutput(_)
RunOutput(ls) ==
  IF ls = << >> THEN << >>
  ELSE LET eff == UnitEffect(Processor(processor, ArgOf(Head(ls)), impl = "Executor"),
                             FALSE, ctxErr)
       IN eff.out \o (IF eff.err # NilErr THEN << >> ELSE RunOutput(Tail(ls)))

\* C6: a line for which the processor returns nil is skipped and is no
\* error: no command is executed for it, nothing is written to output or
\* stderr for it, the loop reads on (it ends after a skipped line only at the
\* end of the stream), and the final output of a run that is not cancelled
\* is the output of the input without the skipped lines.
C6_NilSkipsLine ==
  Dispatching =>
    /\ \A k \in 1..Len(calls) :
         Skipped(calls[k]) =>
           /\ calls[k] \notin Range(execs) \cup Range(failed)
           /\ \A i \in 1..Len(stdout) : stdout[i].by # calls[k]
           /\ \A i \in 1..Len(stderr) : stderr[i].by # calls[k]
    /\ (Done /\ pos > 0 /\ Len(calls) = pos /\ Skipped(pos)) =>
         (pos = Len(stdin) /\ result \in { NilErr, ErrRead })
    /\ (Done /\ ~ctxDone) => Texts(stdout) = RunOutput(Kept(stdin))

C6_Witness ==
  /\ impl = "Executor"
  /\ processor # Nil
  /\ Done
  /\ ~ctxDone
  /\ Len(stdin) = 3
  /\ Skipped(2)
  /\ calls = << 1, 2, 3 >>
  /\ execs = << 1, 3 >>
  /\ Len(stdout) = 2
  /\ result = NilErr

\* C7: for an input of zero lines and a configured processor the loop ends
\* with success, the processor is never called and the output stays empty.
C7_EmptyInput ==
  (Dispatching /\ stdin = << >> /\ ~srcErr) =>
    /\ calls = << >>
    /\ execs = << >>
    /\ stdout = << >>
    /\ Done => result = NilErr

C7_Witness ==
  /\ impl = "Executor"
  /\ processor # Nil
  /\ stdin = << >>
  /\ ~srcErr
  /\ Done
  /\ result = NilErr

\* C8: at most one command is running at any time, and the next line is
\* requested only when the processor call and the command (if any) of the
\* current line have completed.
C8_Sequential ==
  /\ running \in 0..1
  /\ (running = 1) => pc = "unit"
  /\ (pc = "scan") =>
       /\ running = 0
       /\ impl # "PassThrough" => Len(calls) = pos
       /\ (pos > 0 /\ cmd # NilCmd) => (execs # << >> /\ Last(execs) = pos)

C8_Witness ==
  /\ impl = "Executor"
  /\ pc = "unit"
  /\ running = 1
  /\ pos = 2
  /\ execs = << 1, 2 >>

C10_NoUnitAfterCancel ==
  (impl = "Executor" /\ processor # Nil /\ cancelPos # NoPos) =>
    \A i \in Range(execs) : i <= cancelPos

\* A command returned a failure of its own: an error that is not the
\* context's.
OwnFailure == failed # << >> /\ err \notin ContextErrors

\* C11: when no command fails on its own and the source has no read error,
\* the result is success or the error of the context, and the latter only
\* when the context is done; a command's own failure is the result as it is,
\* never a cancellation error.
C11_CancellationDistinct ==
  (Dispatching /\ Done) =>
    /\ (~OwnFailure /\ ~srcErr) =>
         (result = NilErr \/ (ctxDone /\ result = ctxErr))
    /\ OwnFailure => (result = err /\ result \notin ContextErrors)

C11_Witness ==
  /\ impl = "Executor"
  /\ processor = "errorLine"
  /\ Done
  /\ ctxDone
  /\ OwnFailure
  /\ failed = << 2 >>
  /\ result = SimulatedError(ArgOf(stdin[2]))

\* The source reports the end of the stream or a read error: the scanner is
\* asked for a line when none is left.
AtEndOfStream == pc = "scan" /\ pos = Len(stdin)

\* C12: when the source reports the end of the stream the loop stops with
\* success, and when it reports a read error the loop stops with exactly that
\* error; the step calls no processor, executes no command and writes
\* nothing, and after a read error nothing happens any more.
C12_EndOfStream ==
  /\ [][(AtEndOfStream /\ pc' # pc) =>
          /\ pc' = "done"
          /\ result' = IF srcErr THEN ErrRead ELSE NilErr
          /\ UNCHANGED << calls, execs, stdout, stderr, running >>]_vars
  /\ [](result = ErrRead =>
          (Done /\ srcErr /\ pos = Len(stdin) /\ running = 0))
  /\ [][result # ErrRead]_vars

C12_Witness ==
  /\ impl = "Executor"
  /\ processor = "prefix"
  /\ Done
  /\ result = ErrRead
  /\ Len(stdin) = 2
  /\ calls = << 1, 2 >>
  /\ execs = << 1, 2 >>

\* The lines of the input the scanner has not returned yet.
Unread == SubSeq(stdin, pos + 1, Len(stdin))

\* C13: every command is executed with an empty or absent input stream
\* (Execute passes nil, Executor an empty reader), never with the input of
\* the loop, and starting or finishing a command leaves the unread lines of
\* the input as they are.
C13_UnitGetsNoInput ==
  /\ [](/\ Len(unitStdin) = Len(execs)
        /\ \A k \in 1..Len(unitStdin) :
             unitStdin[k] = IF impl = "Execute" THEN NilReader ELSE EmptyReader)
  /\ [][(pc \in { "exec", "unit" }) => (Unread' = Unread)]_vars

C13_Witness ==
  /\ impl = "Executor"
  /\ Done
  /\ Len(stdin) = 3
  /\ unitStdin = << EmptyReader, EmptyReader, EmptyReader >>
  /\ execs = << 1, 2, 3 >>

\* s is a prefix of t.
IsPrefix(s, t) == Len(s) <= Len(t) /\ SubSeq(t, 1, Len(s)) = s

\* What the command of line i has written once it returned: nothing when the
\* line was skipped or its command never started, what it writes before
\* failing when it failed, its whole output otherwise.
WrittenBy(i) ==
  IF i \notin Range(execs) THEN << >>
  ELSE LET texts == UnitEffect(CommandOf(i), i \in Range(failed), ctxErr).out
       IN [ j \in 1..Len(texts) |-> [ text |-> texts[j], by |-> i ] ]

RECURSIVE WrittenUpTo(_)
WrittenUpTo(k) == IF k = 0 THEN << >> ELSE WrittenUpTo(k - 1) \o WrittenBy(k)

\* C14: output is never taken back, and when the loop ends with a failure
\* while line k is the current one, the output holds, in line order, what the
\* commands of the lines 1..k-1 wrote (each of them was executed unless its
\* line was skipped) followed by what the command of line k wrote before the
\* stop, and nothing else.
C14_OutputKept ==
  /\ [][IsPrefix(stdout, stdout') /\ IsPrefix(stderr, stderr')]_vars
  /\ []((Dispatching /\ Done /\ result # NilErr) =>
          /\ stdout = WrittenUpTo(pos)
          /\ \A i \in 1..(pos - 1) : Skipped(i) \/ i \in Range(execs))

C14_Witness ==
  /\ impl = "Executor"
  /\ processor = "mixed"
  /\ Done
  /\ failed = << 2 >>
  /\ result = SimulatedError(ArgOf(stdin[2]))
  /\ Len(stdout) = 2
  /\ stdout[2].by = 2

\* The indices of the lines of the input for which the processor returns a
\* command, in order.
RECURSIVE KeptIndices(_)
KeptIndices(n) ==
  IF n = 0 THEN << >>
  ELSE IF Skipped(n) THEN KeptIndices(n - 1) ELSE Append(KeptIndices(n - 1), n)

\* C15: success is never returned early: when the loop returns success every
\* line of the input was read, the processor was called for each of them,
\* every command it returned was executed and none of them failed, and the
\* source ended without a read error.
C15_SuccessIsComplete ==
  (Dispatching /\ Done /\ result = NilErr) =>
    /\ pos = Len(stdin)
    /\ ~srcErr
    /\ calls = [ i \in 1..Len(stdin) |-> i ]
    /\ execs = KeptIndices(Len(stdin))
    /\ failed = << >>
    /\ running = 0

C15_Witness ==
  /\ impl = "Executor"
  /\ processor = "skipBlank"
  /\ Done
  /\ result = NilErr
  /\ Len(stdin) = 3
  /\ execs = << 1, 3 >>
  /\ ctxDone

\* The Body-based executor with a body, and no line skipped so far.
BodyExecutor == impl = "Executor" /\ processor # Nil
NoneSkipped == \A k \in 1..Len(calls) : ~Skipped(calls[k])

\* C16: in the Body-based executor the context is checked only after a
\* command that succeeded: that check returns ctx.Err() once the context is
\* done, so while the body returns a command for every line at most one more
\* command starts after the cancellation (none for a line after the one in
\* progress, only the first with a context cancelled at invocation); a line
\* for which the body returns nil goes back to reading with no check, also
\* when the context is done.
C16_CheckOnlyAfterSuccess ==
  /\ [][(BodyExecutor /\ pc = "select" /\ ctxDone) =>
          (pc' = "done" /\ result' = ctxErr)]_vars
  /\ [][(BodyExecutor /\ pc = "body" /\ Skipped(pos) /\ pc' # pc) =>
          (pc' = "scan" /\ result' = Pending)]_vars
  /\ []((BodyExecutor /\ NoneSkipped) =>
          /\ cancelPos # NoPos => \A i \in Range(execs) : i <= cancelPos
          /\ ctxAtStart => \A i \in Range(execs) : i = 1)
  /\ []((BodyExecutor /\ Done /\ result \in ContextErrors /\ failed = << >>) =>
          (execs # << >> /\ Last(execs) = pos /\ result = ctxErr))

C16_Witness ==
  /\ BodyExecutor
  /\ ctxAtStart
  /\ Done
  /\ result = ctxErr
  /\ Len(stdin) = 3
  /\ calls = << 1, 2 >>
  /\ execs = << 2 >>
  /\ Len(stdout) = 1

\* C17: for every finite input, if every processor call and every command
\* returns, the loop ends, with exactly one result (it has a result exactly
\* when it has ended), and once it has ended nothing happens any more: no
\* line is read, no processor called, nothing written.
C17_Terminates ==
  /\ <>Done
  /\ [](Done <=> result # Pending)
  /\ [][~Done]_vars

C17_Witness ==
  /\ impl = "Executor"
  /\ processor = "mixed"
  /\ Done
  /\ Len(stdin) = MaxLines
  /\ pos = MaxLines
  /\ result = NilErr
  /\ execs = << 1, 3 >>

PassThrough == impl = "PassThrough"
\* The first n lines of the input as the pass-through writes them.
Copied(n) == [ i \in 1..n |-> [ text |-> Println(stdin[i]), by |-> i ] ]

\* What C18 holds of every run of the pass-through executor: the output is
\* the input lines read so far, each with its newline and in input order,
\* the line is written before the context is checked, the first write error
\* ends the loop and is the result, and the check after a write returns
\* ctx.Err() once the context is done.
PassThroughCopies ==
  /\ [](PassThrough =>
          /\ Len(stdout) <= Len(stdin)
          /\ stdout = Copied(Len(stdout))
          /\ pos \in { Len(stdout), Len(stdout) + 1 }
          /\ pc = "select" => Len(stdout) = pos
          /\ result = ErrWrite => (Done /\ okWrites = Len(stdout) /\ pos = okWrites + 1)
          /\ (Done /\ result \in ContextErrors) =>
               (ctxDone /\ result = ctxErr /\ pos >= 1 /\ Len(stdout) = pos))
  /\ [][(PassThrough /\ pc = "write" /\ pc' # pc) =>
          IF okWrites # Unlimited /\ Len(stdout) >= okWrites
          THEN pc' = "done" /\ result' = ErrWrite /\ stdout' = stdout
          ELSE pc' = "select" /\ stdout' = Copied(pos)]_vars
  /\ [][(PassThrough /\ pc = "select" /\ ctxDone) =>
          (pc' = "done" /\ result' = ctxErr /\ stdout' = stdout)]_vars

\* C18 (as claimed, its last part): with a context already cancelled at
\* invocation and an input that is not empty, exactly the first line is
\* written.
C18_FirstLineAlwaysWritten ==
  (PassThrough /\ ctxAtStart /\ stdin # << >> /\ Done) => stdout = Copied(1)

\* C18 (amended): as claimed, but with a context already cancelled at
\* invocation and an input that is not empty, exactly the first line is
\* written and ctx.Err() returned when the first write succeeds, and nothing
\* is written and the write error returned when it fails.
C18_PassThrough ==
  /\ PassThroughCopies
  /\ []((PassThrough /\ ctxAtStart /\ stdin # << >> /\ Done) =>
          IF okWrites = 0
          THEN stdout = << >> /\ result = ErrWrite
          ELSE stdout = Copied(1) /\ result = ctxErr)

C18_Witness ==
  /\ PassThrough
  /\ ctxAtStart
  /\ okWrites = Unlimited
  /\ Done
  /\ Len(stdin) = 3
  /\ stdout = Copied(1)
  /\ result = ctxErr

====
